---- MODULE Spec2Model ----
(***************************************************************************)
(* Model of the crypto trader dashboard: the data-access layer             *)
(* (src/cosmos_client.py) and the render script (src/app.py).              *)
(*                                                                         *)
(* One render pass is one top-to-bottom run of app.py; it is modelled as   *)
(* a sequence of steps (pc).  The document store, the process environment, *)
(* the secrets store and the operator's widget values are the inputs.      *)
(*                                                                         *)
(* Conventions                                                             *)
(*   - an optional value (Python None, a missing dict key) is <<>>, a      *)
(*     present value x is <<x>>;                                           *)
(*   - a Python string that the code parses is a sequence of characters;   *)
(*   - a float ratio is the pair <<numerator, denominator>>.               *)
(***************************************************************************)
EXTENDS Integers, Sequences, FiniteSets, TLC

VARIABLES
    env,          \* process environment: the three COSMOS_DB_* variables
    secrets,      \* st.secrets: the three COSMOS_DB_* entries
    cache,        \* st.cache_resource entry of get_client(): <<>> or <<client>>
    store,        \* the document database, one field per container
    pc,           \* position of the running render pass, "idle" between passes
    status,       \* how the latest pass ended: "none", "stopped", "crashed", "done"
    input,        \* widget values the browser delivered with this rerun
    settings,     \* app.py:49   result of client.get_settings()
    portfolio,    \* app.py:86   result of client.get_portfolio()
    equity_logs,  \* app.py:87   result of client.get_equity_logs()
    trades,       \* app.py:187  result of client.get_recent_trades()
    screen,       \* what this pass has rendered so far
    ops           \* data-store and HTTP operations this pass has performed

vars == <<env, secrets, cache, store, pc, status, input, settings, portfolio,
          equity_logs, trades, screen, ops>>

-----------------------------------------------------------------------------
(* Bounds of the model *)

\* longest text typed into "Coins to Track"
MaxLen == 3
\* most equity-log documents in the store
MaxLogs == 3

-----------------------------------------------------------------------------
(* Generic helpers *)

None == <<>>
Some(x) == <<x>>
Opt(S) == {None} \cup {Some(x) : x \in S}

\* dict.get(key, default) on an optional field
Get(o, default) == IF o = None THEN default ELSE o[1]

\* Python truthiness of an optional string: None and "" are falsy
Truthy(o) == o # None /\ o[1] # ""

SeqsUpTo(S, n) == UNION {[1..k -> S] : k \in 0..n}

-----------------------------------------------------------------------------
(* Credential resolution: CosmosDBClient.__init__, cosmos_client.py:9-34 *)

DefaultDbName == "tradingdb"

\* lines 11-12, 16-19: os.getenv(K), then st.secrets[K] when the
\* environment value is None or empty and K is in st.secrets
ResolveFallback_SecretsFirst(e, s) == IF s # None THEN s ELSE e
ResolveFallback(e, s) == IF ~Truthy(e) /\ s # None THEN s ELSE e

\* lines 13, 20-21: os.getenv(K, "tradingdb"), then st.secrets[K] when the
\* name is still the default and K is in st.secrets
ResolveDbName(e, s) ==
    LET db_name == Get(e, DefaultDbName)
    IN  IF db_name = DefaultDbName /\ s # None THEN s[1] ELSE db_name

\* line 23: if not self.url or not self.key
CredentialsMissing_UrlOnly(url, key) == ~Truthy(url)
CredentialsMissing(url, key) == ~Truthy(url) \/ ~Truthy(key)

\* lines 11-21, 27-34: the attributes of the client object (its containers
\* are fixed names)
NewClient(e, s) ==
    [url     |-> ResolveFallback(e.COSMOS_DB_URL, s.COSMOS_DB_URL),
     key     |-> ResolveFallback(e.COSMOS_DB_KEY, s.COSMOS_DB_KEY),
     db_name |-> ResolveDbName(e.COSMOS_DB_NAME, s.COSMOS_DB_NAME)]

-----------------------------------------------------------------------------
(* Coin list conversions of the settings form, app.py:59-60 and 70 *)

Chars == {"a", " ", ","}

RECURSIVE Split(_)
\* str.split(","): the pieces between commas, empty pieces included
Split(s) ==
    IF \A i \in 1..Len(s) : s[i] # ","
    THEN <<s>>
    ELSE LET i == CHOOSE k \in 1..Len(s) :
                      s[k] = "," /\ \A j \in 1..(k - 1) : s[j] # ","
         IN  <<SubSeq(s, 1, i - 1)>> \o Split(SubSeq(s, i + 1, Len(s)))

RECURSIVE LStrip(_)
LStrip(s) == IF s # <<>> /\ Head(s) = " " THEN LStrip(Tail(s)) ELSE s

RECURSIVE RStrip(_)
RStrip(s) ==
    IF s # <<>> /\ s[Len(s)] = " " THEN RStrip(SubSeq(s, 1, Len(s) - 1)) ELSE s

\* str.strip()
Strip_LeftOnly(s) == LStrip(s)
Strip(s) == RStrip(LStrip(s))

\* line 70: [c.strip() for c in coins_str.split(",") if c.strip()]
ParseCoins(coins_str) ==
    LET pieces == Split(coins_str)
        stripped == [i \in 1..Len(pieces) |-> Strip(pieces[i])]
    IN  SelectSeq(stripped, LAMBDA c : c # <<>>)

RECURSIVE JoinCoins(_)
\* line 60: ", ".join(coins)
JoinCoins(coins) ==
    IF coins = <<>> THEN <<>>
    ELSE IF Len(coins) = 1 THEN coins[1]
    ELSE coins[1] \o <<",", " ">> \o JoinCoins(Tail(coins))

\* the int 0, the default of settings.get(K, 0)
IntZero == [t |-> "int", v |-> 0]

\* float(x): an int becomes the float of the same value, a float stays
ToFloat(n) == [t |-> "float", v |-> n.v]

-----------------------------------------------------------------------------
(* Data-access layer: CosmosDBClient, cosmos_client.py:36-74 *)

\* the year the render script queries, the default of get_equity_logs
QueryYear == "2026"

\* read_item(item=id): the document, or None when it is missing or the call
\* raises (lines 37-41 and 52-56: except Exception -> st.error, return None)
ReadItem(doc, fails) == IF fails THEN None ELSE doc

RECURSIVE OrderByTimestampDesc(_)
\* ORDER BY c.timestamp DESC over a set of documents
OrderByTimestampDesc(docs) ==
    IF docs = {} THEN <<>>
    ELSE LET top == CHOOSE d \in docs : \A o \in docs : o.timestamp <= d.timestamp
         IN  <<top>> \o OrderByTimestampDesc(docs \ {top})

\* lines 58-65: SELECT * FROM c WHERE c.year = '{year}' ORDER BY c.timestamp DESC,
\* [] when the query raises
get_equity_logs(container, year, fails) ==
    IF fails THEN <<>>
    ELSE OrderByTimestampDesc({d \in container : d.year = year})

\* lines 67-74: SELECT TOP {limit} * FROM c ORDER BY c.timestamp DESC
TradesLimit == 50
get_recent_trades(container, limit, fails) ==
    IF fails THEN <<>>
    ELSE LET all == OrderByTimestampDesc(container)
         IN  SubSeq(all, 1, IF Len(all) < limit THEN Len(all) ELSE limit)

\* lines 43-49: replace_item(item="main_settings", body=settings_doc); the
\* settings container alone is written, and only when the call succeeds
update_settings_WrongContainer(st, settings_doc, fails) ==
    IF fails THEN st ELSE [st EXCEPT !.portfolio = Some(settings_doc)]
update_settings(st, settings_doc, fails) ==
    IF fails THEN st ELSE [st EXCEPT !.settings = Some(settings_doc)]

-----------------------------------------------------------------------------
(* Settings form, app.py:51-80 *)

\* lines 54-65: the values the form shows before the operator edits them
Prefill(doc) ==
    [tp        |-> ToFloat(Get(doc.TAKE_PROFIT, IntZero)),
     sl        |-> ToFloat(Get(doc.STOP_LOSS, IntZero)),
     amount    |-> ToFloat(Get(doc.ORDER_AMOUNT, IntZero)),
     coins_str |-> JoinCoins(Get(doc.COINS_TO_TRACK, <<>>)),
     prompt    |-> Get(doc.PROMPT_TEMPLATE, "")]

\* the widget values of this pass: what the operator typed, else the prefill
FormValues(doc, typed) ==
    LET pre == Prefill(doc)
    IN  [tp        |-> Get(typed.tp, pre.tp),
         sl        |-> Get(typed.sl, pre.sl),
         amount    |-> Get(typed.amount, pre.amount),
         coins_str |-> Get(typed.coins_str, pre.coins_str),
         prompt    |-> Get(typed.prompt, pre.prompt)]

\* lines 70-75: the five fields are overwritten in the document that was read,
\* its other fields are kept
SubmittedDoc(doc, f) ==
    [doc EXCEPT !.TAKE_PROFIT     = Some(f.tp),
                !.STOP_LOSS       = Some(f.sl),
                !.ORDER_AMOUNT    = Some(f.amount),
                !.COINS_TO_TRACK  = Some(ParseCoins(f.coins_str)),
                !.PROMPT_TEMPLATE = Some(f.prompt)]

-----------------------------------------------------------------------------
(* Top metrics, app.py:89-119 *)

\* line 96: strftime("%Y-%m-%d %H:%M:%S") keeps whole seconds; a timestamp
\* counts half seconds
FormatSeconds(ts) == ts \div 2

\* lines 91-96: "Unknown" unless there is a log whose timestamp is truthy
\* (timestamp 0 stands for an empty one)
LastRun_Oldest(logs) ==
    IF logs # <<>> /\ logs[Len(logs)].timestamp # 0
    THEN [known |-> TRUE, text |-> FormatSeconds(logs[Len(logs)].timestamp)]
    ELSE [known |-> FALSE, text |-> 0]
LastRun(logs) ==
    IF logs # <<>> /\ logs[1].timestamp # 0
    THEN [known |-> TRUE, text |-> FormatSeconds(logs[1].timestamp)]
    ELSE [known |-> FALSE, text |-> 0]

\* portfolio.get("holdings", {}) as the sequence of its items, in dict order
HoldingsOf(p) == Get(p.holdings, <<>>)

\* lines 104-106: qty * h.get("current_price", h.get("entry_price", 0))
HoldingValue_EntryOnly(h) == Get(h.quantity, 0) * Get(h.entry_price, 0)
HoldingValue(h) ==
    Get(h.quantity, 0) * Get(h.current_price, Get(h.entry_price, 0))

RECURSIVE TotalHoldingsVal(_)
\* lines 102-106
TotalHoldingsVal(hs) ==
    IF hs = <<>> THEN 0 ELSE HoldingValue(Head(hs)) + TotalHoldingsVal(Tail(hs))

\* line 108
TotalVal(p) == TotalHoldingsVal(HoldingsOf(p)) + Get(p.balance_usd, 0)

\* lines 115-119: shown when more than one log was fetched
PnlShown(logs) == Len(logs) > 1

\* lines 116-118, the percentage as the ratio <<numerator, denominator>>
PeriodPnl_NewestLog(logs, total_val) ==
    LET start_val == Get(logs[1].total_value, total_val)
        pnl == total_val - start_val
    IN  [pnl |-> pnl,
         pnl_pct |-> IF start_val # 0 THEN <<pnl * 100, start_val>> ELSE <<0, 1>>]
PeriodPnl(logs, total_val) ==
    LET start_val == Get(logs[Len(logs)].total_value, total_val)
        pnl == total_val - start_val
    IN  [pnl |-> pnl,
         pnl_pct |-> IF start_val # 0 THEN <<pnl * 100, start_val>> ELSE <<0, 1>>]

-----------------------------------------------------------------------------
(* Performance chart, app.py:124-140 *)

\* lines 126, 130: px.area(y='total_value') raises when no fetched log has the
\* field, the DataFrame then has no such column
ChartRaises(logs) == \A i \in 1..Len(logs) : logs[i].total_value = None

\* line 128: sort_values('timestamp'), ascending
ChartPoints(logs) ==
    [i \in 1..Len(logs) |->
        [timestamp   |-> logs[Len(logs) + 1 - i].timestamp,
         total_value |-> logs[Len(logs) + 1 - i].total_value]]

-----------------------------------------------------------------------------
(* Holdings table, app.py:147-183 *)

\* lines 150-166: one row of the table
HoldingRow(h) ==
    LET qty   == Get(h.quantity, 0)
        entry == Get(h.entry_price, 0)
        curr  == Get(h.current_price, entry)
    IN  [Coin     |-> h.coin,
         Quantity |-> qty,
         AvgEntry |-> entry,
         Current  |-> curr,
         Value    |-> qty * curr,
         PnlUsd   |-> IF entry > 0 THEN (curr - entry) * qty ELSE 0,
         PnlPct   |-> IF entry > 0 THEN <<(curr - entry) * 100, entry>> ELSE <<0, 1>>]

RECURSIVE InsertByValueDesc(_, _)
InsertByValueDesc(row, sorted) ==
    IF sorted = <<>> THEN <<row>>
    ELSE IF row.Value > Head(sorted).Value THEN <<row>> \o sorted
    ELSE <<Head(sorted)>> \o InsertByValueDesc(row, Tail(sorted))

RECURSIVE SortByValueDesc(_)
\* line 170: sort_values("Value (USD)", ascending=False)
SortByValueDesc(rows) ==
    IF rows = <<>> THEN <<>>
    ELSE InsertByValueDesc(rows[Len(rows)], SortByValueDesc(SubSeq(rows, 1, Len(rows) - 1)))

\* lines 148-170: the rows of the table as displayed
HoldingsTable(p) ==
    LET hs == HoldingsOf(p)
    IN  SortByValueDesc([i \in 1..Len(hs) |-> HoldingRow(hs[i])])

-----------------------------------------------------------------------------
(* Watchlist section, app.py:198-232 *)

RECURSIVE Unique(_)
Unique(s) ==
    IF s = <<>> THEN <<>>
    ELSE LET rest == Unique(SubSeq(s, 1, Len(s) - 1))
             x == s[Len(s)]
         IN  IF \E i \in 1..Len(rest) : rest[i] = x THEN rest ELSE Append(rest, x)

\* line 212: df_watch[df_watch['status'] != 'bought']['coin'].unique().tolist()
pending_coins(watchlist) ==
    LET open == SelectSeq(watchlist, LAMBDA w : w.status # "bought")
    IN  Unique([i \in 1..Len(open) |-> open[i].coin])

-----------------------------------------------------------------------------
(* Render pass, app.py top to bottom *)

\* one operation on the data store or one HTTP call, with its argument
Op(name, arg) == [op |-> name, arg |-> arg]

NoTyping == [tp |-> None, sl |-> None, amount |-> None, coins_str |-> None,
             prompt |-> None]

\* a page load: no widget was used
Load == [submitted |-> FALSE, typed |-> NoTyping, buy_coin |-> "",
         force_buy |-> FALSE, refresh |-> FALSE]

\* "Update Settings" pressed with the fields as typed
Submit(typed) == [Load EXCEPT !.submitted = TRUE, !.typed = typed]

\* "Force Buy <coin>" pressed with the coin selected
ForceBuy(coin) == [Load EXCEPT !.buy_coin = coin, !.force_buy = TRUE]

\* "Refresh Data" pressed
Refresh == [Load EXCEPT !.refresh = TRUE]

BlankScreen ==
    [errors      |-> {},     \* st.error messages of the data-access layer
     form        |-> FALSE,  \* the settings form is shown
     sidebar     |-> "",     \* result message of a settings submit
     last_update |-> None,   \* the "Last Update" line
     total_val   |-> None,   \* "Total Portfolio Value"
     cash        |-> None,   \* "Cash Balance"
     count       |-> None,   \* "Holdings Count"
     pnl         |-> None,   \* "Period PnL"
     chart       |-> None,   \* the equity curve
     holdings    |-> None,   \* rows of the holdings table
     candidates  |-> None,   \* options of the force-buy selector (app.py:216)
     infos       |-> {}]     \* st.info placeholders

\* app.py:8-38: a rerun starts the script from the top with the widget values
\* the browser sent; nothing of the previous pass is kept but the cached client
StartPass(i) ==
    /\ pc = "idle"
    /\ pc' = "client"
    /\ status' = "running"
    /\ input' = i
    /\ settings' = None
    /\ portfolio' = None
    /\ equity_logs' = <<>>
    /\ trades' = <<>>
    /\ screen' = BlankScreen
    /\ ops' = <<>>
    /\ UNCHANGED <<env, secrets, cache, store>>

\* app.py:41-45 and cosmos_client.py:9-34: the cached client, else a new one;
\* st.stop() ends the pass and leaves nothing in the cache
GetClient ==
    /\ pc = "client"
    /\ IF cache # None
       THEN /\ pc' = "get_settings"
            /\ UNCHANGED <<cache, status, screen>>
       ELSE LET client == NewClient(env, secrets)
            IN  IF CredentialsMissing(client.url, client.key)
                THEN /\ screen' = [screen EXCEPT !.errors = @ \cup {"credentials"}]
                     /\ status' = "stopped"
                     /\ pc' = "idle"
                     /\ UNCHANGED cache
                ELSE /\ cache' = Some(client)
                     /\ pc' = "get_settings"
                     /\ UNCHANGED <<status, screen>>
    /\ UNCHANGED <<env, secrets, store, input, settings, portfolio, equity_logs,
                   trades, ops>>

\* app.py:48-49, cosmos_client.py:36-41
GetSettings ==
    /\ pc = "get_settings"
    /\ \E fails \in BOOLEAN :
          /\ settings' = ReadItem(store.settings, fails)
          /\ screen' = IF settings' = None
                       THEN [screen EXCEPT !.errors = @ \cup {"settings"}]
                       ELSE screen
    /\ ops' = Append(ops, Op("read_settings", ""))
    /\ pc' = "form"
    /\ UNCHANGED <<env, secrets, cache, store, status, input, portfolio,
                   equity_logs, trades>>

\* app.py:51 and 69: the form is processed when settings were read ("if
\* settings:"), and submits when the button was pressed ("if submitted:")
FormSubmits(doc, i) == doc # None /\ i.submitted

\* app.py:51-80, cosmos_client.py:43-49
SettingsForm ==
    /\ pc = "form"
    /\ IF FormSubmits(settings, input)
       THEN \E fails \in BOOLEAN :
               LET doc == SubmittedDoc(settings[1],
                                       FormValues(settings[1], input.typed))
               IN  /\ settings' = Some(doc)
                   /\ store' = update_settings(store, doc, fails)
                   /\ ops' = Append(ops, Op("replace_settings", ""))
                   /\ screen' = [screen EXCEPT
                                   !.form = TRUE,
                                   !.errors = IF fails THEN @ \cup {"update"} ELSE @,
                                   !.sidebar = IF fails THEN "failed" ELSE "success"]
       ELSE /\ screen' = [screen EXCEPT !.form = (settings # None)]
            /\ UNCHANGED <<settings, store, ops>>
    /\ pc' = "get_portfolio"
    /\ UNCHANGED <<env, secrets, cache, status, input, portfolio, equity_logs,
                   trades>>

\* app.py:86, cosmos_client.py:51-56
GetPortfolio ==
    /\ pc = "get_portfolio"
    /\ \E fails \in BOOLEAN :
          /\ portfolio' = ReadItem(store.portfolio, fails)
          /\ screen' = IF portfolio' = None
                       THEN [screen EXCEPT !.errors = @ \cup {"portfolio"}]
                       ELSE screen
    /\ ops' = Append(ops, Op("read_portfolio", ""))
    /\ pc' = "get_equity_logs"
    /\ UNCHANGED <<env, secrets, cache, store, status, input, settings,
                   equity_logs, trades>>

\* app.py:87, cosmos_client.py:58-65
GetEquityLogs ==
    /\ pc = "get_equity_logs"
    /\ \E fails \in BOOLEAN :
          /\ equity_logs' = get_equity_logs(store.equity_logs, QueryYear, fails)
          /\ screen' = IF fails
                       THEN [screen EXCEPT !.errors = @ \cup {"equity_logs"}]
                       ELSE screen
    /\ ops' = Append(ops, Op("query_equity_logs", ""))
    /\ pc' = "metrics"
    /\ UNCHANGED <<env, secrets, cache, store, status, input, settings,
                   portfolio, trades>>

\* app.py:89-121: everything here is under "if portfolio:"
TopMetrics ==
    /\ pc = "metrics"
    /\ IF portfolio # None
       THEN LET total_val == TotalVal(portfolio[1])
            IN  screen' = [screen EXCEPT
                    !.last_update = Some(LastRun(equity_logs)),
                    !.total_val   = Some(total_val),
                    !.cash        = Some(Get(portfolio[1].balance_usd, 0)),
                    !.count       = Some(Len(HoldingsOf(portfolio[1]))),
                    !.pnl         = IF PnlShown(equity_logs)
                                    THEN Some(PeriodPnl(equity_logs, total_val))
                                    ELSE None]
       ELSE UNCHANGED screen
    /\ pc' = "chart"
    /\ UNCHANGED <<env, secrets, cache, store, status, input, settings,
                   portfolio, equity_logs, trades, ops>>

\* app.py:123-140
Chart ==
    /\ pc = "chart"
    /\ IF equity_logs # <<>> /\ ChartRaises(equity_logs)
       THEN /\ status' = "crashed"
            /\ pc' = "idle"
            /\ UNCHANGED screen
       ELSE /\ screen' = IF equity_logs # <<>>
                         THEN [screen EXCEPT !.chart = Some(ChartPoints(equity_logs))]
                         ELSE screen
            /\ pc' = "holdings"
            /\ UNCHANGED status
    /\ UNCHANGED <<env, secrets, cache, store, input, settings, portfolio,
                   equity_logs, trades, ops>>

\* app.py:143-183
Holdings ==
    /\ pc = "holdings"
    /\ IF portfolio # None
       THEN LET rows == HoldingsTable(portfolio[1])
            IN  screen' = IF rows # <<>>
                          THEN [screen EXCEPT !.holdings = Some(rows)]
                          ELSE [screen EXCEPT !.infos = @ \cup {"No active holdings."}]
       ELSE UNCHANGED screen
    /\ pc' = "trades"
    /\ UNCHANGED <<env, secrets, cache, store, status, input, settings,
                   portfolio, equity_logs, trades, ops>>

\* app.py:185-196, cosmos_client.py:67-74
RecentTrades ==
    /\ pc = "trades"
    /\ \E fails \in BOOLEAN :
          /\ trades' = get_recent_trades(store.trades, TradesLimit, fails)
          /\ screen' = [screen EXCEPT
                          !.errors = IF fails THEN @ \cup {"trades"} ELSE @,
                          !.infos = IF trades' = <<>>
                                    THEN @ \cup {"No recent trades found."} ELSE @]
    /\ ops' = Append(ops, Op("query_trades", ""))
    /\ pc' = "watchlist"
    /\ UNCHANGED <<env, secrets, cache, store, status, input, settings,
                   portfolio, equity_logs>>

\* app.py:198-200: CosmosDBClient defines no get_watchlist (cosmos_client.py
\* ends with get_recent_trades at line 74), so client.get_watchlist() raises
\* AttributeError before any call is made; the exception is not caught and the
\* script run ends here.  Lines 201-237 never run.
Watchlist ==
    /\ pc = "watchlist"
    /\ status' = "crashed"
    /\ pc' = "idle"
    /\ UNCHANGED <<env, secrets, cache, store, input, settings, portfolio,
                   equity_logs, trades, screen, ops>>

\* the secrets file is edited between passes (st.secrets reloads it); the
\* process environment is fixed for the life of the process
Reconfigure(s) ==
    /\ pc = "idle"
    /\ s # secrets
    /\ secrets' = s
    /\ UNCHANGED <<env, cache, store, pc, status, input, settings, portfolio,
                   equity_logs, trades, screen, ops>>

-----------------------------------------------------------------------------
(* Documents and inputs the specifications draw from *)

IntNum(n) == [t |-> "int", v |-> n]
FloatNum(n) == [t |-> "float", v |-> n]

\* the coin list of the settings round-trip example, "btc, eth ,, sol"
ExampleCoinsStr ==
    <<"b", "t", "c", ",", " ", "e", "t", "h", " ", ",", ",", " ", "s", "o", "l">>
ExampleCoins == <<<<"b", "t", "c">>, <<"e", "t", "h">>, <<"s", "o", "l">>>>

\* a settings document as the trading engine seeds it
SeededSettings ==
    [id              |-> "main_settings",
     TAKE_PROFIT     |-> Some(IntNum(5)),
     STOP_LOSS       |-> Some(IntNum(3)),
     ORDER_AMOUNT    |-> Some(IntNum(9)),
     COINS_TO_TRACK  |-> Some(<<<<"a">>, <<" ", "a">>>>),
     PROMPT_TEMPLATE |-> Some("prompt")]

\* a settings document holding its id only
BareSettings ==
    [id              |-> "main_settings",
     TAKE_PROFIT     |-> None,
     STOP_LOSS       |-> None,
     ORDER_AMOUNT    |-> None,
     COINS_TO_TRACK  |-> None,
     PROMPT_TEMPLATE |-> None]

Typing(tps, sls, amounts, strs, prompts) ==
    [tp : tps, sl : sls, amount : amounts, coins_str : strs, prompt : prompts]

CoinStrs == SeqsUpTo(Chars, MaxLen) \cup {ExampleCoinsStr}

Coins == {"btc", "eth"}

Holding(coin, quantity, entry_price, current_price) ==
    [coin |-> coin, quantity |-> quantity, entry_price |-> entry_price,
     current_price |-> current_price]

PortfolioDoc(balance_usd, holdings) ==
    [id |-> "main_portfolio", balance_usd |-> balance_usd, holdings |-> holdings]

\* the shapes of one holding: with and without a current price, a current
\* price of 0, no prices at all
HoldingShapes(coin) ==
    {Holding(coin, Some(2), Some(1), Some(3)),
     Holding(coin, Some(2), Some(1), None),
     Holding(coin, Some(1), Some(3), Some(0)),
     Holding(coin, Some(3), None, None),
     Holding(coin, None, Some(2), Some(2))}

\* every portfolio document over the two coins
AllPortfolios ==
    LET one(c) == {<<h>> : h \in HoldingShapes(c)}
        two == {<<a, b>> : a \in HoldingShapes("btc"), b \in HoldingShapes("eth")}
        maps == {<<>>} \cup one("btc") \cup one("eth") \cup two
    IN  {PortfolioDoc(b, Some(m)) : b \in Opt({5}), m \in maps}
        \cup {PortfolioDoc(Some(5), None)}

SmallPortfolio ==
    PortfolioDoc(Some(5), Some(<<Holding("btc", Some(2), Some(1), Some(3)),
                                 Holding("eth", Some(2), Some(1), None)>>))

EquityLog(timestamp, year, total_value) ==
    [timestamp |-> timestamp, year |-> year, total_value |-> total_value]

\* every equity-log collection of at most MaxLogs documents with distinct
\* timestamps (0 is an empty timestamp)
AllLogSets ==
    LET kinds == {<<"2026", Some(0)>>, <<"2026", Some(4)>>, <<"2026", None>>,
                  <<"2025", Some(4)>>}
        pick == [0..(MaxLogs - 1) -> Opt(kinds)]
    IN  {{EquityLog(t, f[t][1][1], f[t][1][2]) : t \in {x \in DOMAIN f : f[x] # None}}
            : f \in pick}

SmallLogs == {EquityLog(2, "2026", Some(4)), EquityLog(5, "2026", Some(6))}

Trade(timestamp) == [timestamp |-> timestamp]
SmallTrades == {Trade(1), Trade(2)}

WatchEntry(coin, st, addedAt) ==
    [coin |-> coin, status |-> st, addedAt |-> addedAt]

\* the watchlist of the force-buy example: one bought, one pending entry
ExampleWatchlist == <<WatchEntry("btc", "bought", 1), WatchEntry("eth", "pending", 2)>>

Credentials(url, key, name) ==
    [COSMOS_DB_URL |-> url, COSMOS_DB_KEY |-> key, COSMOS_DB_NAME |-> name]

NoCredentials == Credentials(None, None, None)

Store(s, p, logs, tr, wl) ==
    [settings |-> s, portfolio |-> p, equity_logs |-> logs, trades |-> tr,
     watchlist |-> wl]

InitWith(envs, secs, stores) ==
    /\ env \in envs
    /\ secrets \in secs
    /\ store \in stores
    /\ cache = None
    /\ pc = "idle"
    /\ status = "none"
    /\ input = Load
    /\ settings = None
    /\ portfolio = None
    /\ equity_logs = <<>>
    /\ trades = <<>>
    /\ screen = BlankScreen
    /\ ops = <<>>

\* the steps of a pass after the operator's interaction
PassSteps ==
    \/ GetClient
    \/ GetSettings
    \/ SettingsForm
    \/ GetPortfolio
    \/ GetEquityLogs
    \/ TopMetrics
    \/ Chart
    \/ Holdings
    \/ RecentTrades
    \/ Watchlist

-----------------------------------------------------------------------------
(* Spec: every kind of interaction, valid credentials, small documents *)

EnvCredentials == Credentials(Some("env-url"), Some("env-key"), None)

SpecInteractions ==
    {Load, Refresh} \cup {ForceBuy(c) : c \in Coins}
    \cup {Submit(t) : t \in Typing(Opt({FloatNum(2)}), {None}, Opt({FloatNum(2)}),
                                     {None, Some(ExampleCoinsStr)},
                                     {None, Some("edited")})}

Init ==
    InitWith({EnvCredentials}, {NoCredentials},
             {Store(s, p, logs, SmallTrades, wl) :
                 s \in {None, Some(SeededSettings)},
                 p \in {None, Some(SmallPortfolio)},
                 logs \in {{}, SmallLogs},
                 wl \in {<<>>, ExampleWatchlist}})

Next ==
    \/ \E i \in SpecInteractions : StartPass(i)
    \/ PassSteps

Spec == Init /\ [][Next]_vars

-----------------------------------------------------------------------------
(* SpecForm: the settings form with every text of at most MaxLen characters *)

FormInteractions ==
    {Load}
    \cup {Submit(t) : t \in Typing({None}, Opt({FloatNum(2)}), {None},
                                     Opt(CoinStrs), {None})}

InitForm ==
    InitWith({EnvCredentials}, {NoCredentials},
             {Store(Some(s), None, {}, {}, <<>>) : s \in {SeededSettings, BareSettings}})

NextForm ==
    \/ \E i \in FormInteractions : StartPass(i)
    \/ PassSteps

SpecForm == InitForm /\ [][NextForm]_vars

-----------------------------------------------------------------------------
(* SpecMetrics: page loads over every portfolio and equity-log collection *)

InitMetrics ==
    InitWith({EnvCredentials}, {NoCredentials},
             {Store(None, p, logs, {}, <<>>) :
                 p \in Opt(AllPortfolios), logs \in AllLogSets})

NextMetrics ==
    \/ StartPass(Load)
    \/ PassSteps

SpecMetrics == InitMetrics /\ [][NextMetrics]_vars

-----------------------------------------------------------------------------
(* SpecCred: page loads under every configuration of the credentials *)

AllEnvs ==
    {Credentials(u, k, n) :
        u \in Opt({"", "env-url"}), k \in Opt({"", "env-key"}),
        n \in Opt({DefaultDbName, "env-db"})}

AllSecrets ==
    {Credentials(u, k, n) :
        u \in Opt({"sec-url"}), k \in Opt({"sec-key"}), n \in Opt({"sec-db"})}

InitCred ==
    InitWith(AllEnvs, AllSecrets,
             {Store(Some(SeededSettings), Some(SmallPortfolio), SmallLogs,
                    SmallTrades, ExampleWatchlist)})

NextCred ==
    \/ StartPass(Load)
    \/ PassSteps
    \/ \E s \in AllSecrets : Reconfigure(s)

SpecCred == InitCred /\ [][NextCred]_vars

-----------------------------------------------------------------------------
(* Properties *)

Range(f) == {f[i] : i \in DOMAIN f}

Performed(name) == \E i \in 1..Len(ops) : ops[i].op = name

\* a pass that had a client has ended
PassOver == pc = "idle" /\ status \notin {"none", "stopped"}

\* the top metrics of this pass (app.py:89-119) have been rendered or skipped
MetricsDone ==
    \/ pc \in {"chart", "holdings", "trades", "watchlist"}
    \/ pc = "idle" /\ status = "crashed"

\* the holdings table of this pass (app.py:145-183) has been rendered or skipped
HoldingsDone ==
    \/ pc \in {"trades", "watchlist"}
    \/ pc = "idle" /\ Performed("query_trades")

RatioEq(a, b) == a[1] * b[2] = b[1] * a[2]

\* C1: whatever the outcomes of the reads, of a settings write and of a
\* force-buy call, a render pass that has a client runs to its end (through
\* the watchlist section to the "Refresh Data" control) without an uncaught
\* error.
C1_PassRunsToEnd == PassOver => status = "done"

\* C2: no step of a render pass writes the portfolio, trade, equity-log or
\* watchlist documents; the settings document changes only in the form step
\* of a pass whose settings read succeeded and whose form was submitted, and
\* it then is, in full, the submitted document: the document read with the
\* five form fields overwritten.
C2_OnlySettingsWritten ==
    [][/\ store'.portfolio = store.portfolio
       /\ store'.equity_logs = store.equity_logs
       /\ store'.trades = store.trades
       /\ store'.watchlist = store.watchlist
       /\ store'.settings # store.settings =>
            /\ pc = "form"
            /\ settings # None
            /\ input.submitted
            /\ Performed("read_settings")
            /\ store'.settings # None
            /\ LET f == FormValues(settings[1], input.typed)
                   d == store'.settings[1]
               IN  /\ d.id = settings[1].id
                   /\ d.TAKE_PROFIT = Some(f.tp)
                   /\ d.STOP_LOSS = Some(f.sl)
                   /\ d.ORDER_AMOUNT = Some(f.amount)
                   /\ d.COINS_TO_TRACK # None
                   /\ d.PROMPT_TEMPLATE = Some(f.prompt)]_vars

\* a submitted form has replaced the seeded settings document
C2_Witness ==
    /\ pc = "get_portfolio"
    /\ input.submitted
    /\ screen.sidebar = "success"
    /\ store.settings = settings
    /\ store.settings # Some(SeededSettings)
    /\ store.settings[1].PROMPT_TEMPLATE = Some("edited")

AbsentFromBoth(e, s) == e = None /\ s = None

\* C3: when the database URL or the access key is absent from both the
\* environment and the secrets store and no client is cached, client
\* construction halts the pass: the pass ends stopped with the credentials
\* error as its only output, no data-access read or write and no force-buy
\* call performed, and no client cached, so that the next pass halts again.
C3_MissingConfigHalts ==
    [][/\ (/\ pc = "client"
           /\ cache = None
           /\ \/ AbsentFromBoth(env.COSMOS_DB_URL, secrets.COSMOS_DB_URL)
              \/ AbsentFromBoth(env.COSMOS_DB_KEY, secrets.COSMOS_DB_KEY))
          => /\ pc' = "idle"
             /\ status' = "stopped"
             /\ cache' = None
             /\ ops' = <<>>
             /\ screen' = [BlankScreen EXCEPT !.errors = {"credentials"}]
             /\ store' = store
       /\ status' = "stopped" => ops' = <<>> /\ cache' = None]_vars

\* a pass was halted although the URL is configured: the key is missing
C3_Witness ==
    /\ pc = "idle"
    /\ status = "stopped"
    /\ env.COSMOS_DB_URL = Some("env-url")
    /\ AbsentFromBoth(env.COSMOS_DB_KEY, secrets.COSMOS_DB_KEY)
    /\ cache = None
    /\ ops = <<>>

PendingSet(watchlist) == {w.coin : w \in {x \in Range(watchlist) : x.status # "bought"}}

HttpGets == SelectSeq(ops, LAMBDA o : o.op = "http_get")

\* C4: a force-buy click on a coin offered by the watchlist issues exactly
\* one HTTP GET for the selected coin, and the pass continues to its end
\* without crashing.
C4_ForceBuyIssuesOneGet ==
    (/\ PassOver
     /\ input.force_buy
     /\ input.buy_coin \in PendingSet(store.watchlist))
    => /\ status = "done"
       /\ Len(HttpGets) = 1
       /\ HttpGets[1].arg = input.buy_coin

\* C10: the force-buy candidates offered by a pass are exactly the coins of
\* the watchlist entries whose status is not "bought", and an HTTP call is
\* issued only for an offered coin.
C10_CandidatesArePending ==
    PassOver =>
        /\ Range(Get(screen.candidates, <<>>)) = Range(pending_coins(store.watchlist))
        /\ \A i \in 1..Len(HttpGets) :
              HttpGets[i].arg \in Range(Get(screen.candidates, <<>>))

WellFormedCoin(c) ==
    /\ c # <<>>
    /\ \A i \in 1..Len(c) : c[i] # ","
    /\ c[1] # " "
    /\ c[Len(c)] # " "

Letters(s) == SelectSeq(s, LAMBDA ch : ch \notin {" ", ","})

RECURSIVE Flatten(_)
Flatten(ss) == IF ss = <<>> THEN <<>> ELSE Head(ss) \o Flatten(Tail(ss))

\* the comma-separated segments of s that hold something other than spaces,
\* each named by the position of the comma before it (0 for the first)
NonEmptySegments(s) ==
    {i \in {0} \cup {k \in 1..Len(s) : s[k] = ","} :
        \E j \in (i + 1)..Len(s) :
            /\ s[j] \notin {" ", ","}
            /\ \A k \in (i + 1)..j : s[k] # ","}

\* C5: on a settings submit the COINS_TO_TRACK list of the submitted document
\* is the comma-separated input split on commas, each item trimmed, empty
\* items dropped, order kept ("btc, eth ,, sol" gives [btc, eth, sol]); the
\* document is persisted as submitted unless the write fails; and the round
\* trip is idempotent: reading that document, pre-filling the form from it
\* and submitting it unchanged gives the identical document.
C5_CoinListRoundTrip ==
    [][(pc = "form" /\ settings # None /\ input.submitted) =>
          LET s == FormValues(settings[1], input.typed).coins_str
              d == settings'[1]
              coins == d.COINS_TO_TRACK[1]
          IN  /\ \A i \in 1..Len(coins) : WellFormedCoin(coins[i])
              /\ Letters(Flatten(coins)) = Letters(s)
              /\ Len(coins) = Cardinality(NonEmptySegments(s))
              /\ s = ExampleCoinsStr => coins = ExampleCoins
              /\ store'.settings = Some(d) \/ store' = store
              /\ SubmittedDoc(d, FormValues(d, NoTyping)) = d
              /\ (input.typed = NoTyping /\ SubmittedDoc(settings[1], FormValues(settings[1], NoTyping)) = settings[1])
                    => d = settings[1]]_vars

\* the example list was persisted, then read back and re-submitted unchanged,
\* and the store holds the same list
C5_Witness ==
    /\ pc = "get_portfolio"
    /\ input.submitted
    /\ input.typed = NoTyping
    /\ screen.sidebar = "success"
    /\ store.settings = settings
    /\ store.settings[1].COINS_TO_TRACK = Some(ExampleCoins)

\* C6 (as amended): the client is built from the environment's URL and key
\* whenever the environment supplies a non-empty one, and from the secrets
\* store's only otherwise; the database name is the environment's unless that
\* is missing or equal to the default "tradingdb", in which case the secrets
\* store's name is used when it has one.
C6_EnvironmentFirst ==
    [][(cache = None /\ cache' # None) =>
          LET c == cache'[1]
          IN  /\ Truthy(env.COSMOS_DB_URL) => c.url = env.COSMOS_DB_URL
              /\ ~Truthy(env.COSMOS_DB_URL) => c.url = secrets.COSMOS_DB_URL
              /\ Truthy(env.COSMOS_DB_KEY) => c.key = env.COSMOS_DB_KEY
              /\ ~Truthy(env.COSMOS_DB_KEY) => c.key = secrets.COSMOS_DB_KEY
              /\ env.COSMOS_DB_NAME \notin {None, Some(DefaultDbName)}
                    => c.db_name = env.COSMOS_DB_NAME[1]
              /\ (env.COSMOS_DB_NAME \in {None, Some(DefaultDbName)}
                    /\ secrets.COSMOS_DB_NAME # None)
                    => c.db_name = secrets.COSMOS_DB_NAME[1]
              /\ (env.COSMOS_DB_NAME \in {None, Some(DefaultDbName)}
                    /\ secrets.COSMOS_DB_NAME = None)
                    => c.db_name = DefaultDbName]_vars

\* both sources supply all three values and the client holds the environment's
C6_Witness ==
    /\ cache # None
    /\ env = Credentials(Some("env-url"), Some("env-key"), Some("env-db"))
    /\ secrets = Credentials(Some("sec-url"), Some("sec-key"), Some("sec-db"))
    /\ cache[1] = [url |-> Some("env-url"), key |-> Some("env-key"), db_name |-> "env-db"]
    /\ pc = "get_settings"

\* C6 (as claimed): for each of the three configuration values, when both the
\* environment and the secrets store supply one, the client is built from
\* the secrets store's.
C6_SecretsFirst ==
    [][(cache = None /\ cache' # None) =>
          LET c == cache'[1]
          IN  /\ (env.COSMOS_DB_URL # None /\ secrets.COSMOS_DB_URL # None)
                    => c.url = secrets.COSMOS_DB_URL
              /\ (env.COSMOS_DB_KEY # None /\ secrets.COSMOS_DB_KEY # None)
                    => c.key = secrets.COSMOS_DB_KEY
              /\ (env.COSMOS_DB_NAME # None /\ secrets.COSMOS_DB_NAME # None)
                    => c.db_name = secrets.COSMOS_DB_NAME[1]]_vars

\* the fetched log with the smallest timestamp
OldestFetched ==
    CHOOSE l \in Range(equity_logs) : \A o \in Range(equity_logs) : l.timestamp <= o.timestamp

\* the fetched log with the largest timestamp
NewestFetched ==
    CHOOSE l \in Range(equity_logs) : \A o \in Range(equity_logs) : o.timestamp <= l.timestamp

\* what C7 says of a Period P&L metric that is shown
PnlAsClaimed ==
    LET old == OldestFetched.total_value
        cur == screen.total_val[1]
        shown == screen.pnl[1]
    IN  /\ old # None =>
            /\ shown.pnl = cur - old[1]
            /\ old[1] = 0 => RatioEq(shown.pnl_pct, <<0, 1>>)
            /\ old[1] # 0 => RatioEq(shown.pnl_pct, <<(cur - old[1]) * 100, old[1]>>)
        /\ old = None => shown.pnl = 0 /\ RatioEq(shown.pnl_pct, <<0, 1>>)

\* C7 (as amended): the Period P&L metric is shown if and only if the
\* portfolio was read and at least 2 equity logs were fetched; when shown,
\* P&L is the current total portfolio value minus the total value recorded in
\* the oldest fetched log, and P&L % is 0 when that value is 0 and otherwise
\* (current - oldest) / oldest * 100; an oldest log that records no total
\* value gives a P&L of 0.
C7_PnlShownWithPortfolio ==
    MetricsDone =>
        /\ screen.pnl # None <=> (portfolio # None /\ Len(equity_logs) >= 2)
        /\ screen.pnl # None => PnlAsClaimed

\* a P&L is shown against the oldest of three fetched logs, whose value
\* differs from the newest's
C7_Witness ==
    /\ MetricsDone
    /\ screen.pnl # None
    /\ Len(equity_logs) = 3
    /\ OldestFetched.total_value = Some(4)
    /\ equity_logs[1].total_value = Some(0)
    /\ screen.pnl[1].pnl # 0
    /\ screen.pnl[1].pnl_pct[1] # 0

\* C7 (as claimed): the Period P&L metric is shown if and only if at least 2
\* equity logs were fetched, with the values above.
C7_PnlShownIffTwoLogs ==
    MetricsDone =>
        /\ screen.pnl # None <=> Len(equity_logs) >= 2
        /\ screen.pnl # None => PnlAsClaimed

RECURSIVE SumValues(_)
SumValues(rows) == IF rows = <<>> THEN 0 ELSE Head(rows).Value + SumValues(Tail(rows))

\* C8: each holding's displayed value is its quantity times its current
\* price if it has one, else its entry price, and "Total Portfolio Value" is
\* the cash balance plus the sum of the values shown in the holdings table.
C8_TotalIsCashPlusRows ==
    (HoldingsDone /\ portfolio # None) =>
        LET hs == Get(portfolio[1].holdings, <<>>)
            rows == Get(screen.holdings, <<>>)
        IN  /\ Len(rows) = Len(hs)
            /\ \A i \in 1..Len(hs) :
                  \E j \in 1..Len(rows) :
                      /\ rows[j].Coin = hs[i].coin
                      /\ rows[j].Value =
                            Get(hs[i].quantity, 0) *
                               (IF hs[i].current_price # None
                                THEN hs[i].current_price[1]
                                ELSE Get(hs[i].entry_price, 0))
            /\ screen.total_val = Some(Get(portfolio[1].balance_usd, 0) + SumValues(rows))

\* two rows are shown, one valued at its entry price for want of a current one
C8_Witness ==
    /\ HoldingsDone
    /\ portfolio # None
    /\ screen.holdings # None
    /\ Len(screen.holdings[1]) = 2
    /\ \E i \in 1..2 :
          /\ portfolio[1].holdings[1][i].current_price = None
          /\ portfolio[1].holdings[1][i].entry_price # None
          /\ \E j \in 1..2 : /\ screen.holdings[1][j].Coin = portfolio[1].holdings[1][i].coin
                             /\ screen.holdings[1][j].Value > 0
    /\ screen.total_val[1] > 5

Unknown == [known |-> FALSE, text |-> 0]

\* C9 (as amended): in a pass whose portfolio read succeeded and whose
\* fetched equity-log list is empty, the page shows "Last Update: Unknown"
\* and no Period P&L metric; in a pass whose portfolio read failed it shows
\* neither a Last Update line nor a P&L metric; when the portfolio was read
\* and logs were fetched, Last Update is the timestamp, to the second, of the
\* most recent one, or "Unknown" when that timestamp is empty.
C9_LastUpdateWithPortfolio ==
    MetricsDone =>
        /\ portfolio = None => screen.last_update = None /\ screen.pnl = None
        /\ (portfolio # None /\ equity_logs = <<>>)
              => screen.last_update = Some(Unknown) /\ screen.pnl = None
        /\ (portfolio # None /\ equity_logs # <<>>)
              => screen.last_update =
                    Some(IF NewestFetched.timestamp = 0 THEN Unknown
                         ELSE [known |-> TRUE, text |-> NewestFetched.timestamp \div 2])

\* "Unknown" is shown although the store holds logs: the query failed
C9_Witness ==
    /\ MetricsDone
    /\ portfolio # None
    /\ equity_logs = <<>>
    /\ store.equity_logs # {}
    /\ "equity_logs" \in screen.errors
    /\ screen.last_update = Some(Unknown)
    /\ screen.pnl = None

\* C9 (as claimed): whenever the fetched equity-log list is empty the page
\* shows "Last Update: Unknown" and no Period P&L metric, whatever the
\* outcome of the portfolio read; when logs exist, Last Update is the
\* timestamp of the most recent one.
C9_UnknownWhateverPortfolio ==
    MetricsDone =>
        /\ equity_logs = <<>>
              => screen.last_update = Some(Unknown) /\ screen.pnl = None
        /\ (equity_logs # <<>> /\ NewestFetched.timestamp # 0)
              => screen.last_update =
                    Some([known |-> TRUE, text |-> NewestFetched.timestamp \div 2])

====
